---------------------------- MODULE Spec2Model ----------------------------
(***************************************************************************)
(* A model of the CHIP-8 interpreter of drabard/chip8emu                   *)
(* (src/src/interpreter.rs with its collaborators input.rs, sound.rs and   *)
(* display.rs): the machine state, the decoder, the execution of one       *)
(* instruction, the per-frame tick and the per-frame input collection.     *)
(*                                                                         *)
(* Arrays are functions over 0..len-1, and the bounds check of each access *)
(* is written out against the array's size.  A Rust panic (an index out of *)
(* bounds, an arithmetic overflow in a build with overflow checks, the     *)
(* panic! of a From conversion) ends the process: result = "Panic" and no  *)
(* action is enabled any more.                                             *)
(***************************************************************************)
EXTENDS Integers, Sequences, FiniteSets

(***************************************************************************)
(* Sizes fixed by the program.                                             *)
(***************************************************************************)
MemorySize == 4095
FramebufferSize == 256
StackSize == 15
NumRegisters == 16
NumKeys == 16
ProgramStart == 512

(***************************************************************************)
(* Bounds of the model.                                                    *)
(***************************************************************************)
\* The most input events one Input::collect call finds in the event queue.
MaxEvents == 2

Byte == 0..255

(***************************************************************************)
(* Bit operations of u8 / u16 values, bit by bit.                          *)
(***************************************************************************)
RECURSIVE BitAnd(_, _)
BitAnd(a, b) ==
    IF a = 0 \/ b = 0 THEN 0
    ELSE (IF a % 2 = 1 /\ b % 2 = 1 THEN 1 ELSE 0) + 2 * BitAnd(a \div 2, b \div 2)

RECURSIVE BitOr(_, _)
BitOr(a, b) ==
    IF a = 0 THEN b
    ELSE IF b = 0 THEN a
    ELSE (IF a % 2 = 1 \/ b % 2 = 1 THEN 1 ELSE 0) + 2 * BitOr(a \div 2, b \div 2)

RECURSIVE BitXor(_, _)
BitXor(a, b) ==
    IF a = 0 THEN b
    ELSE IF b = 0 THEN a
    ELSE (IF a % 2 # b % 2 THEN 1 ELSE 0) + 2 * BitXor(a \div 2, b \div 2)

RECURSIVE Pow2(_)
Pow2(n) == IF n = 0 THEN 1 ELSE 2 * Pow2(n - 1)

\* a >> n
Shr(a, n) == a \div Pow2(n)

\* u8::wrapping_add, u8::wrapping_sub, u16::wrapping_add
WrappingAdd8(a, b) == (a + b) % 256
WrappingSub8(a, b) == (a - b) % 256
WrappingAdd16(a, b) == (a + b) % 65536

(***************************************************************************)
(* Instruction: the decoded instruction, a record tagged by op.            *)
(***************************************************************************)
RegisterIndex == 0..(NumRegisters - 1)

Instruction ==
    [op : {"INVALID", "SYS", "CLS", "RET"}]
    \cup [op : {"JP", "CALL", "LDI", "JP0A"}, address : 0..\hfff]
    \cup [op : {"SERV", "SNERV", "LDRV", "ADDRV", "RND"},
          register : RegisterIndex, value : Byte]
    \cup [op : {"SERR", "LDRR", "ORRR", "ANDRR", "XORRR", "ADDRR", "SUBRR",
                "SHR", "SUBN", "SHL", "SNERR"},
          register0 : RegisterIndex, register1 : RegisterIndex]
    \cup [op : {"DRW"}, register0 : RegisterIndex, register1 : RegisterIndex,
          nibble : 0..15]
    \cup [op : {"SKP", "SKNP", "LDRDT", "LDRK", "LDDTR", "LDSTR", "ADDI",
                "LDF", "LDB", "LDIR", "LDRI"},
          register : RegisterIndex]

\* The operand fields of an opcode.
\* (OpX without its shift: (opcode & 0xf00).)
OpX_Unshifted(opcode) == BitAnd(opcode, \hf00)
OpX(opcode) == Shr(BitAnd(opcode, \hf00), 8)      \* (opcode & 0xf00) >> 8
OpY(opcode) == Shr(BitAnd(opcode, \hf0), 4)       \* (opcode & 0xf0) >> 4
OpValue(opcode) == BitAnd(opcode, \hff)           \* opcode & 0xff
\* (OpAddress with the mask of the low byte: opcode & 0xff.)
OpAddress_LowByte(opcode) == BitAnd(opcode, \hff)
OpAddress(opcode) == BitAnd(opcode, \hfff)        \* opcode & 0xfff
OpNibble(opcode) == BitAnd(opcode, \hf)           \* opcode & 0xf

RegValue(name, opcode) ==
    [op |-> name, register |-> OpX(opcode), value |-> OpValue(opcode)]
RegReg(name, opcode) ==
    [op |-> name, register0 |-> OpX(opcode), register1 |-> OpY(opcode)]
Reg(name, opcode) == [op |-> name, register |-> OpX(opcode)]
Addr(name, opcode) == [op |-> name, address |-> OpAddress(opcode)]

\* The arm of family 8: match opcode & 0xf.
DecodeFamily8(opcode) ==
    LET sub == BitAnd(opcode, \hf) IN
    CASE sub = 0 -> RegReg("LDRR", opcode)
      [] sub = 1 -> RegReg("ORRR", opcode)
      [] sub = 2 -> RegReg("ANDRR", opcode)
      [] sub = 3 -> RegReg("XORRR", opcode)
      [] sub = 4 -> RegReg("ADDRR", opcode)
      [] sub = 5 -> RegReg("SUBRR", opcode)
      [] sub = 6 -> RegReg("SHR", opcode)
      [] sub = 7 -> RegReg("SUBN", opcode)
      [] sub = \he -> RegReg("SHL", opcode)
      [] OTHER -> [op |-> "INVALID"]

\* The arm of family 0xe: match opcode & 0xff.
DecodeFamilyE(opcode) ==
    LET sub == BitAnd(opcode, \hff) IN
    CASE sub = \h9E -> Reg("SKP", opcode)
      [] sub = \hA1 -> Reg("SKNP", opcode)
      [] OTHER -> [op |-> "INVALID"]

\* The arm of family 0xf: match opcode & 0xff.
DecodeFamilyF(opcode) ==
    LET sub == BitAnd(opcode, \hff) IN
    CASE sub = \h07 -> Reg("LDRDT", opcode)
      [] sub = \h0A -> Reg("LDRK", opcode)
      [] sub = \h15 -> Reg("LDDTR", opcode)
      [] sub = \h18 -> Reg("LDSTR", opcode)
      [] sub = \h1E -> Reg("ADDI", opcode)
      [] sub = \h29 -> Reg("LDF", opcode)
      [] sub = \h33 -> Reg("LDB", opcode)
      [] sub = \h55 -> Reg("LDIR", opcode)
      [] sub = \h65 -> Reg("LDRI", opcode)
      [] OTHER -> [op |-> "INVALID"]

\* Interpreter::decode_opcode: match (opcode & 0xf000) >> 12.
decode_opcode(opcode) ==
    LET family == Shr(BitAnd(opcode, \hf000), 12) IN
    CASE family = 0 ->
            (CASE BitAnd(opcode, \hfff) = \h0E0 -> [op |-> "CLS"]
               [] BitAnd(opcode, \hfff) = \h0EE -> [op |-> "RET"]
               [] OTHER -> [op |-> "SYS"])
      [] family = 1 -> Addr("JP", opcode)
      [] family = 2 -> Addr("CALL", opcode)
      [] family = 3 -> RegValue("SERV", opcode)
      [] family = 4 -> RegValue("SNERV", opcode)
      [] family = 5 -> RegReg("SERR", opcode)
      [] family = 6 -> RegValue("LDRV", opcode)
      [] family = 7 -> RegValue("ADDRV", opcode)
      [] family = 8 -> DecodeFamily8(opcode)
      [] family = 9 -> RegReg("SNERR", opcode)
      [] family = 10 -> Addr("LDI", opcode)
      [] family = 11 -> Addr("JP0A", opcode)
      [] family = 12 -> RegValue("RND", opcode)
      [] family = 13 ->
            [op |-> "DRW", register0 |-> OpX(opcode), register1 |-> OpY(opcode),
             nibble |-> OpNibble(opcode)]
      [] family = 14 -> DecodeFamilyE(opcode)
      [] family = 15 -> DecodeFamilyF(opcode)
      [] OTHER -> [op |-> "INVALID"]

(***************************************************************************)
(* KeyState, as its u8 representation.                                     *)
(***************************************************************************)
KeyUp == 1
KeyPressed == 2
KeyDown == 3

(***************************************************************************)
(* The state.  The fields of Interpreter keep their names; chip8_keys is   *)
(* the field of Input, playing the status of Sound's audio device, canvas  *)
(* the set of lit pixels Display last drew.                                *)
(*   overflow_checks  whether the build panics on integer overflow (a      *)
(*                    debug build) or wraps (a release build)              *)
(*   loop_pos         where the frame loop stands: "polled" after the      *)
(*                    frame's Input::collect, "top" after its tick         *)
(*   result           what the last execute_next_instruction call gave:    *)
(*                    "None" before the first, "Ok", "FramebufferChanged", *)
(*                    "Err" or "Panic"                                     *)
(*   opcode, instruction   what that call fetched and decoded              *)
(*   pre_framebuffer  the framebuffer at the start of that call            *)
(*   loaded_rom       the ROM bytes Interpreter::new was given             *)
(*   stored           the registers, the index register and the register   *)
(*                    count of the last bulk store (Fx55) that completed   *)
(*   calls            the calls (2nnn) not yet returned from, the last     *)
(*                    first: for each the address after the call and the   *)
(*                    stack pointer before it                              *)
(***************************************************************************)
VARIABLES framebuffer, memory, registers, stack, memory_register,
          delay_timer, sound_timer, program_counter, stack_pointer,
          previous_status, chip8_keys, playing, canvas,
          overflow_checks, loop_pos, result, opcode, instruction,
          pre_framebuffer, loaded_rom, stored, calls

vars == <<framebuffer, memory, registers, stack, memory_register,
          delay_timer, sound_timer, program_counter, stack_pointer,
          previous_status, chip8_keys, playing, canvas,
          overflow_checks, loop_pos, result, opcode, instruction,
          pre_framebuffer, loaded_rom, stored, calls>>

\* The fields of Interpreter an instruction works on, as one record.
Machine ==
    [framebuffer |-> framebuffer, memory |-> memory, registers |-> registers,
     stack |-> stack, memory_register |-> memory_register,
     delay_timer |-> delay_timer, sound_timer |-> sound_timer,
     program_counter |-> program_counter, stack_pointer |-> stack_pointer]

NoInstruction == [op |-> "NONE"]

\* No bulk store has completed yet.
NoStore == [register |-> -1]

(***************************************************************************)
(* Interpreter::new                                                        *)
(***************************************************************************)
\* The hard-coded digit sprites, bytes 0..79 of memory.
DigitSprites ==
    <<240, 144, 144, 144, 240,    \* 0
      32, 96, 32, 32, 112,        \* 1
      240, 16, 240, 128, 240,     \* 2
      240, 16, 240, 16, 240,      \* 3
      144, 144, 240, 16, 16,      \* 4
      240, 128, 240, 16, 240,     \* 5
      240, 128, 240, 144, 240,    \* 6
      240, 16, 32, 64, 64,        \* 7
      240, 144, 240, 144, 240,    \* 8
      240, 144, 240, 16, 240,     \* 9
      240, 144, 240, 144, 144,    \* A
      224, 144, 224, 144, 224,    \* B
      240, 128, 128, 128, 240,    \* C
      224, 144, 144, 144, 224,    \* D
      240, 128, 240, 128, 240,    \* E
      240, 128, 240, 128, 128>>   \* F

\* "C8P"
MagicString == <<67, 56, 80>>

\* (NewCompletes with the last byte of memory left out of the capacity.)
NewCompletes_OneLess(rom_buffer) ==
    /\ Len(rom_buffer) >= 3
    /\ LET program_len == IF SubSeq(rom_buffer, 1, 3) = MagicString
                          THEN Len(rom_buffer) - 3 ELSE Len(rom_buffer)
       IN  ProgramStart + program_len < MemorySize

\* Whether new(rom_buffer) returns: &rom_buffer[0..3] needs three bytes, and
\* the copied slice has to fit memory[0x200..].
NewCompletes(rom_buffer) ==
    /\ Len(rom_buffer) >= 3
    /\ LET program_len == IF SubSeq(rom_buffer, 1, 3) = MagicString
                          THEN Len(rom_buffer) - 3 ELSE Len(rom_buffer)
       IN  ProgramStart + program_len <= MemorySize

\* (NewMemory copying the whole buffer, the magic string included.)
NewMemory_KeepMarker(rom_buffer) ==
    [a \in 0..(MemorySize - 1) |->
        IF a < Len(DigitSprites) THEN DigitSprites[a + 1]
        ELSE IF a >= ProgramStart /\ a < ProgramStart + Len(rom_buffer)
             THEN rom_buffer[(a - ProgramStart) + 1]
        ELSE 0]

\* The memory new(rom_buffer) builds: the digit sprites at 0, the program
\* (the bytes after the magic string, if the ROM starts with it) at 0x200.
NewMemory(rom_buffer) ==
    LET skip == IF SubSeq(rom_buffer, 1, 3) = MagicString THEN 3 ELSE 0
        program_len == Len(rom_buffer) - skip
    IN  [a \in 0..(MemorySize - 1) |->
            IF a < Len(DigitSprites) THEN DigitSprites[a + 1]
            ELSE IF a >= ProgramStart /\ a < ProgramStart + program_len
                 THEN rom_buffer[skip + (a - ProgramStart) + 1]
            ELSE 0]

(***************************************************************************)
(* Input                                                                   *)
(***************************************************************************)
\* impl From<u8> for Key: whether the conversion returns (it panics if not).
KeyFromCompletes(value) == value \in 0..(NumKeys - 1)

\* The CHIP-8 key each key code stands for, in Input::collect.
KeycodeKey ==
    [kc \in {"Num1", "Num2", "Num3", "Num4", "Q", "W", "E", "R",
             "A", "S", "D", "F", "Z", "X", "C", "V"} |->
        CASE kc = "Num1" -> 1 [] kc = "Num2" -> 2 [] kc = "Num3" -> 3
          [] kc = "Num4" -> 12 [] kc = "Q" -> 4 [] kc = "W" -> 5
          [] kc = "E" -> 6 [] kc = "R" -> 13 [] kc = "A" -> 7
          [] kc = "S" -> 8 [] kc = "D" -> 9 [] kc = "F" -> 14
          [] kc = "Z" -> 10 [] kc = "X" -> 0 [] kc = "C" -> 11
          [] kc = "V" -> 15]

\* The key codes whose events the model's event queue carries.
PolledKeycodes == {"X", "Num1"}

Events == [kind : {"KeyDown", "KeyUp"}, keycode : PolledKeycodes]

\* The event queues one collect call may find.
EventQueues == UNION {[1..n -> Events] : n \in 0..MaxEvents}

\* The loop over event_pump.poll_iter() of Input::collect.
RECURSIVE ApplyEvents(_, _)
ApplyEvents(keys, events) ==
    IF events = <<>> THEN keys
    ELSE LET event == Head(events)
             key == KeycodeKey[event.keycode]
             state == IF event.kind = "KeyDown" THEN KeyPressed ELSE KeyUp
         IN  ApplyEvents([keys EXCEPT ![key] = state], Tail(events))

\* The first loop of Input::collect: KeyState::from(k as u8 | 1).
AgeKeys(keys) == [i \in DOMAIN keys |-> BitOr(keys[i], 1)]

\* (any_key_pressed taking a held key for a pressed one.)
any_key_pressed_OrDown(keys) ==
    IF \E i \in DOMAIN keys : keys[i] # KeyUp
    THEN CHOOSE i \in DOMAIN keys :
            /\ keys[i] # KeyUp
            /\ \A j \in DOMAIN keys : keys[j] # KeyUp => i <= j
    ELSE -1

\* Input::any_key_pressed: the position of the first KeyPressed entry, -1 for None.
any_key_pressed(keys) ==
    IF \E i \in DOMAIN keys : keys[i] = KeyPressed
    THEN CHOOSE i \in DOMAIN keys :
            /\ keys[i] = KeyPressed
            /\ \A j \in DOMAIN keys : keys[j] = KeyPressed => i <= j
    ELSE -1

\* Input::get_key_state
get_key_state(keys, key) == keys[key]

(***************************************************************************)
(* Sound and Display                                                       *)
(***************************************************************************)
\* Sound::play: resume the device unless it is playing.
SoundPlay(is_playing) == IF ~is_playing THEN TRUE ELSE is_playing

\* Sound::stop: pause the device.
SoundStop(is_playing) == FALSE

\* Display::set_pixels: the pixels filled on the cleared canvas, pixel
\* (col_byte * 8 + pixel_x, row) for each set bit 7 - pixel_x of the byte
\* col_byte + row * 8 (a byte of 0 fills none).
set_pixels(fb) ==
    UNION {{<<cr[1] * 8 + pixel_x, cr[2]>> :
               pixel_x \in {p \in 0..7 : Shr(fb[cr[1] + cr[2] * 8], 7 - p) % 2 = 1}} :
           cr \in {c \in (0..7) \X (0..31) : fb[c[1] + c[2] * 8] # 0}}

(***************************************************************************)
(* Interpreter::execute_instruction.  Each operator below takes the        *)
(* machine s (program_counter already advanced by 2) and gives             *)
(* [state, status, panicked]: the machine the instruction leaves, the      *)
(* ExecutionStatus and whether the instruction panicked on the way (state  *)
(* then holds what was written before the panic).                          *)
(***************************************************************************)
Completed(s) == [state |-> s, status |-> "Ok", panicked |-> FALSE]
Panicked(s) == [state |-> s, status |-> "Ok", panicked |-> TRUE]

\* usize::MAX is written -1, its value modulo the word size: what
\* stack_pointer holds after 0 - 1 wraps.
UsizeMax == -1

\* (CLS reporting the framebuffer as changed.)
ExecCLS_Changed(s) ==
    [state |-> [s EXCEPT !.framebuffer = [b \in 0..(FramebufferSize - 1) |-> 0]],
     status |-> "FramebufferChanged", panicked |-> FALSE]

\* self.framebuffer = [0; 256]
ExecCLS(s) ==
    Completed([s EXCEPT !.framebuffer = [b \in 0..(FramebufferSize - 1) |-> 0]])

\* (JP adding the address to the advanced program counter.)
ExecJP_Relative(s, address) ==
    Completed([s EXCEPT !.program_counter = (s.program_counter + address) % 65536])

\* self.program_counter = address
ExecJP(s, address) == Completed([s EXCEPT !.program_counter = address])

\* (RET leaving the stack pointer where it is.)
ExecRET_KeepPointer(s, checks) ==
    IF s.stack_pointer \notin 0..(StackSize - 1) THEN Panicked(s)
    ELSE Completed([s EXCEPT !.program_counter = s.stack[s.stack_pointer]])

ExecRET(s, checks) ==
    IF s.stack_pointer \notin 0..(StackSize - 1) THEN Panicked(s)
    ELSE LET s1 == [s EXCEPT !.program_counter = s.stack[s.stack_pointer]]
         IN  IF s.stack_pointer = 0
             THEN IF checks THEN Panicked(s1)
                  ELSE Completed([s1 EXCEPT !.stack_pointer = UsizeMax])
             ELSE Completed([s1 EXCEPT !.stack_pointer = s.stack_pointer - 1])

ExecCALL(s, address, checks) ==
    IF s.stack_pointer = UsizeMax /\ checks THEN Panicked(s)
    ELSE LET s1 == [s EXCEPT !.stack_pointer = s.stack_pointer + 1]
         IN  IF s1.stack_pointer \notin 0..(StackSize - 1) THEN Panicked(s1)
             ELSE Completed([s1 EXCEPT
                     !.stack[s1.stack_pointer] = s.program_counter,
                     !.program_counter = address])

\* (Skip adding 2 whether the condition holds or not.)
Skip_Always(s, condition) ==
    Completed([s EXCEPT !.program_counter = s.program_counter + 2])

Skip(s, condition) ==
    Completed(IF condition
              THEN [s EXCEPT !.program_counter = s.program_counter + 2]
              ELSE s)

\* (ADDRV leaving the flag register alone.)
ExecADDRV_NoFlag(s, register, value) ==
    Completed([s EXCEPT !.registers[register] =
                  WrappingAdd8(s.registers[register], value)])

ExecADDRV(s, register, value) ==
    LET sum == s.registers[register] + value
        s1 == [s EXCEPT !.registers[15] = IF sum > 255 THEN 1 ELSE 0]
    IN  Completed([s1 EXCEPT !.registers[register] =
                      WrappingAdd8(s1.registers[register], value)])

ExecADDRR(s, register0, register1) ==
    LET sum == s.registers[register1] + s.registers[register0]
        s1 == [s EXCEPT !.registers[15] = IF sum > 255 THEN 1 ELSE 0]
    IN  Completed([s1 EXCEPT !.registers[register0] =
                      WrappingAdd8(s1.registers[register0], s1.registers[register1])])

\* (SUBRR with the flag of "no borrow": diff >= 0.)
ExecSUBRR_NoBorrow(s, register0, register1) ==
    LET diff == s.registers[register0] - s.registers[register1]
        s1 == [s EXCEPT !.registers[15] = IF diff >= 0 THEN 1 ELSE 0]
    IN  Completed([s1 EXCEPT !.registers[register0] =
                      WrappingSub8(s1.registers[register0], s1.registers[register1])])

ExecSUBRR(s, register0, register1) ==
    LET diff == s.registers[register0] - s.registers[register1]
        s1 == [s EXCEPT !.registers[15] = IF diff > 0 THEN 1 ELSE 0]
    IN  Completed([s1 EXCEPT !.registers[register0] =
                      WrappingSub8(s1.registers[register0], s1.registers[register1])])

ExecSUBN(s, register0, register1) ==
    LET diff == s.registers[register1] - s.registers[register0]
        s1 == [s EXCEPT !.registers[15] = IF diff > 0 THEN 1 ELSE 0]
    IN  Completed([s1 EXCEPT !.registers[register0] =
                      WrappingSub8(s1.registers[register1], s1.registers[register0])])

ExecSHR(s, register0) ==
    LET s1 == [s EXCEPT !.registers[15] =
                  IF BitAnd(s.registers[register0], 1) = 1 THEN 1 ELSE 0]
    IN  Completed([s1 EXCEPT !.registers[register0] = Shr(s1.registers[register0], 1)])

ExecSHL(s, register0) ==
    LET s1 == [s EXCEPT !.registers[15] =
                  IF BitAnd(s.registers[register0], 128) = 128 THEN 1 ELSE 0]
    IN  Completed([s1 EXCEPT !.registers[register0] =
                      (s1.registers[register0] * 2) % 256])

\* (XorInto with = for ^=.)
XorInto_Assign(fb, idx, bits) == [fb EXCEPT ![idx] = bits]

\* (XorInto with |= for ^=.)
XorInto_Or(fb, idx, bits) == [fb EXCEPT ![idx] = BitOr(fb[idx], bits)]

\* framebuffer[idx] ^= bits
XorInto(fb, idx, bits) == [fb EXCEPT ![idx] = BitXor(fb[idx], bits)]

\* (NextByteIndex staying on the byte of the high part.)
NextByteIndex_Same(fb_byte_idx) == fb_byte_idx

\* The byte the low part of a row goes to: framebuffer[0] after the last
\* byte, framebuffer[fb_byte_idx + 1] otherwise.
NextByteIndex(fb_byte_idx) ==
    IF fb_byte_idx = FramebufferSize - 1 THEN 0 ELSE fb_byte_idx + 1

\* One pass of the row loop of DRW, from row to nibble - 1.
RECURSIVE DrawRows(_, _, _, _, _, _)
DrawRows(s, register0, register1, nibble, row, checks) ==
    IF row >= nibble
    THEN [state |-> s, status |-> "FramebufferChanged", panicked |-> FALSE]
    ELSE
      LET screen_x == s.registers[register0]
          y_sum == s.registers[register1] + row            \* u8 + u8
          screen_y == y_sum % 256
          bit_offset == screen_x % 8
          a_sum == s.memory_register + row                 \* u16 + u16
          sprite_address == a_sum % 65536
      IN  IF (y_sum > 255 /\ checks) \/ (a_sum > 65535 /\ checks)
             \/ sprite_address >= MemorySize
          THEN Panicked(s)
          ELSE
            LET sprite_byte == s.memory[sprite_address]
                sprite_bits == sprite_byte * Pow2(8 - bit_offset)
                fb_byte_idx == (screen_x \div 8 + screen_y * 8) % 256
                fb1 == XorInto(s.framebuffer, fb_byte_idx, Shr(sprite_bits, 8) % 256)
                fb2 == XorInto(fb1, NextByteIndex(fb_byte_idx), sprite_bits % 256)
            IN  DrawRows([s EXCEPT !.framebuffer = fb2],
                         register0, register1, nibble, row + 1, checks)

\* (SKP skipping only for a key in the pressed state, not for one held.)
ExecSKP_PressedOnly(s, register, keys) ==
    IF ~KeyFromCompletes(s.registers[register]) THEN Panicked(s)
    ELSE Skip(s, get_key_state(keys, s.registers[register]) = KeyPressed)

ExecSKP(s, register, keys) ==
    IF ~KeyFromCompletes(s.registers[register]) THEN Panicked(s)
    ELSE Skip(s, get_key_state(keys, s.registers[register]) # KeyUp)

ExecSKNP(s, register, keys) ==
    IF ~KeyFromCompletes(s.registers[register]) THEN Panicked(s)
    ELSE Skip(s, get_key_state(keys, s.registers[register]) = KeyUp)

\* (LDRK going on to the next instruction when no key is pressed.)
ExecLDRK_NoRollback(s, register, keys) ==
    LET key == any_key_pressed(keys) IN
    IF key >= 0
    THEN Completed([s EXCEPT !.registers[register] = key])
    ELSE Completed(s)

ExecLDRK(s, register, keys) ==
    LET key == any_key_pressed(keys) IN
    IF key >= 0
    THEN Completed([s EXCEPT !.registers[register] = key])
    ELSE Completed([s EXCEPT !.program_counter = s.program_counter - 2])

\* (LDF taking sprites to be 4 bytes long.)
ExecLDF_FourBytes(s, register, checks) ==
    LET product == s.registers[register] * 4
    IN  IF product > 255 /\ checks THEN Panicked(s)
        ELSE Completed([s EXCEPT !.memory_register = product % 256])

ExecLDF(s, register, checks) ==
    LET product == s.registers[register] * 5               \* u8 * u8
    IN  IF product > 255 /\ checks THEN Panicked(s)
        ELSE Completed([s EXCEPT !.memory_register = product % 256])

\* (BcdDigits with the tens not reduced by the hundreds.)
BcdDigits_TensOfValue(value) ==
    LET hundreds == value \div 100
        tens == value \div 10
        ones == value - hundreds * 100 - (tens % 10) * 10
    IN  <<hundreds, tens, ones>>

\* The three digits of LDB; the f32 arithmetic is exact on 0..255.
BcdDigits(value) ==
    LET hundreds == value \div 100
        tens == (value - hundreds * 100) \div 10
        ones == value - hundreds * 100 - tens * 10
    IN  <<hundreds, tens, ones>>

\* The three writes of LDB from the i-th on; the first index out of memory panics.
RECURSIVE StoreDigits(_, _, _)
StoreDigits(s, digits, i) ==
    IF i > 3 THEN Completed(s)
    ELSE IF s.memory_register + (i - 1) >= MemorySize THEN Panicked(s)
    ELSE StoreDigits([s EXCEPT !.memory[s.memory_register + (i - 1)] = digits[i]],
                     digits, i + 1)

\* (LDB writing the digits to the framebuffer in place of memory.)
ExecLDB_Framebuffer(s, register) ==
    LET digits == BcdDigits(s.registers[register])
        at(i) == (s.memory_register + i) % FramebufferSize
    IN  Completed([s EXCEPT !.framebuffer =
            [b \in DOMAIN s.framebuffer |->
                IF b = at(0) THEN digits[1]
                ELSE IF b = at(1) THEN digits[2]
                ELSE IF b = at(2) THEN digits[3]
                ELSE s.framebuffer[b]]])

ExecLDB(s, register) == StoreDigits(s, BcdDigits(s.registers[register]), 1)

\* (LDIR leaving the index register after the bytes it wrote.)
ExecLDIR_AdvanceIndex(s, register) ==
    LET num_registers == register + 1
        mem_start == s.memory_register
        mem_end == mem_start + num_registers
    IN  IF mem_end > MemorySize THEN Panicked(s)
        ELSE Completed([s EXCEPT
                !.memory =
                    [a \in DOMAIN s.memory |->
                        IF a >= mem_start /\ a < mem_end
                        THEN s.registers[a - mem_start] ELSE s.memory[a]],
                !.memory_register = mem_end])

ExecLDIR(s, register) ==
    LET num_registers == register + 1
        mem_start == s.memory_register
        mem_end == mem_start + num_registers
    IN  IF mem_end > MemorySize THEN Panicked(s)
        ELSE Completed([s EXCEPT !.memory =
                [a \in DOMAIN s.memory |->
                    IF a >= mem_start /\ a < mem_end
                    THEN s.registers[a - mem_start] ELSE s.memory[a]]])

\* (LDRI copying one register less.)
ExecLDRI_OneShort(s, register) ==
    LET mem_start == s.memory_register
        mem_end == mem_start + register + 1
    IN  IF mem_end > MemorySize THEN Panicked(s)
        ELSE Completed([s EXCEPT !.registers =
                [i \in DOMAIN s.registers |->
                    IF i < register
                    THEN s.memory[mem_start + i] ELSE s.registers[i]]])

ExecLDRI(s, register) ==
    LET num_registers == register + 1
        mem_start == s.memory_register
        mem_end == mem_start + num_registers
    IN  IF mem_end > MemorySize THEN Panicked(s)
        ELSE Completed([s EXCEPT !.registers =
                [i \in DOMAIN s.registers |->
                    IF i < num_registers
                    THEN s.memory[mem_start + i] ELSE s.registers[i]]])

\* (RND with | for &.)
ExecRND_Or(s, register, value, random_number) ==
    Completed([s EXCEPT !.registers[register] = BitOr(random_number, value)])

\* self.registers[register] = random_number & value
ExecRND(s, register, value, random_number) ==
    Completed([s EXCEPT !.registers[register] = BitAnd(random_number, value)])

\* The match of execute_instruction, on the machine with program_counter += 2.
ExecuteMatch(s, i, keys, random_number, checks) ==
    CASE i.op \in {"INVALID", "SYS"} -> Completed(s)
      [] i.op = "CLS" -> ExecCLS(s)
      [] i.op = "RET" -> ExecRET(s, checks)
      [] i.op = "JP" -> ExecJP(s, i.address)
      [] i.op = "CALL" -> ExecCALL(s, i.address, checks)
      [] i.op = "SERV" -> Skip(s, s.registers[i.register] = i.value)
      [] i.op = "SNERV" -> Skip(s, s.registers[i.register] # i.value)
      [] i.op = "SERR" -> Skip(s, s.registers[i.register0] = s.registers[i.register1])
      [] i.op = "LDRV" -> Completed([s EXCEPT !.registers[i.register] = i.value])
      [] i.op = "ADDRV" -> ExecADDRV(s, i.register, i.value)
      [] i.op = "LDRR" ->
            Completed([s EXCEPT !.registers[i.register0] = s.registers[i.register1]])
      [] i.op = "ORRR" ->
            Completed([s EXCEPT !.registers[i.register0] =
                          BitOr(s.registers[i.register0], s.registers[i.register1])])
      [] i.op = "ANDRR" ->
            Completed([s EXCEPT !.registers[i.register0] =
                          BitAnd(s.registers[i.register0], s.registers[i.register1])])
      [] i.op = "XORRR" ->
            Completed([s EXCEPT !.registers[i.register0] =
                          BitXor(s.registers[i.register0], s.registers[i.register1])])
      [] i.op = "ADDRR" -> ExecADDRR(s, i.register0, i.register1)
      [] i.op = "SUBRR" -> ExecSUBRR(s, i.register0, i.register1)
      [] i.op = "SHR" -> ExecSHR(s, i.register0)
      [] i.op = "SUBN" -> ExecSUBN(s, i.register0, i.register1)
      [] i.op = "SHL" -> ExecSHL(s, i.register0)
      [] i.op = "SNERR" -> Skip(s, s.registers[i.register0] # s.registers[i.register1])
      [] i.op = "LDI" -> Completed([s EXCEPT !.memory_register = i.address])
      [] i.op = "JP0A" ->
            Completed([s EXCEPT !.program_counter = i.address + s.registers[0]])
      [] i.op = "RND" -> ExecRND(s, i.register, i.value, random_number)
      [] i.op = "DRW" -> DrawRows(s, i.register0, i.register1, i.nibble, 0, checks)
      [] i.op = "SKP" -> ExecSKP(s, i.register, keys)
      [] i.op = "SKNP" -> ExecSKNP(s, i.register, keys)
      [] i.op = "LDRDT" -> Completed([s EXCEPT !.registers[i.register] = s.delay_timer])
      [] i.op = "LDRK" -> ExecLDRK(s, i.register, keys)
      [] i.op = "LDDTR" -> Completed([s EXCEPT !.delay_timer = s.registers[i.register]])
      [] i.op = "LDSTR" -> Completed([s EXCEPT !.sound_timer = s.registers[i.register]])
      [] i.op = "ADDI" ->
            Completed([s EXCEPT !.memory_register =
                          WrappingAdd16(s.memory_register, s.registers[i.register])])
      [] i.op = "LDF" -> ExecLDF(s, i.register, checks)
      [] i.op = "LDB" -> ExecLDB(s, i.register)
      [] i.op = "LDIR" -> ExecLDIR(s, i.register)
      [] i.op = "LDRI" -> ExecLDRI(s, i.register)

\* Interpreter::execute_instruction
execute_instruction(s, i, keys, random_number, checks) ==
    ExecuteMatch([s EXCEPT !.program_counter = s.program_counter + 2],
                 i, keys, random_number, checks)

(***************************************************************************)
(* Interpreter::execute_next_instruction                                   *)
(***************************************************************************)
\* (DelayStep without its guard, the u8 wrapping below 0.)
DelayStep_Unguarded(timer) == (timer - 1) % 256

\* if self.delay_timer > 0 { self.delay_timer -= 1; }
DelayStep(timer) == IF timer > 0 THEN timer - 1 ELSE timer

\* (SoundStep decrementing first and gating the tone on the decremented value.)
SoundStep_GateAfterDecrement(timer, is_playing) ==
    LET after == IF timer = 0 THEN 0 ELSE timer - 1
    IN  [sound_timer |-> after,
         playing |-> IF after = 0 THEN SoundStop(is_playing) ELSE SoundPlay(is_playing)]

\* if self.sound_timer == 0 { sound.stop() } else { sound.play(); self.sound_timer -= 1 }
SoundStep(timer, is_playing) ==
    IF timer = 0
    THEN [sound_timer |-> timer, playing |-> SoundStop(is_playing)]
    ELSE [sound_timer |-> timer - 1, playing |-> SoundPlay(is_playing)]

\* Whether the two reads of the opcode fetch are inside memory.
FetchCompletes(s) ==
    s.program_counter < MemorySize /\ s.program_counter + 1 < MemorySize

\* (memory[opcode_address] << 8) | memory[opcode_address + 1]
FetchOpcode(s) ==
    BitOr(s.memory[s.program_counter] * 256, s.memory[s.program_counter + 1])

\* (The INVALID check left out: the instruction goes on to execute_instruction.)
IsInvalid_Never(i) == FALSE

\* if let Instruction::INVALID = instruction
IsInvalid(i) == i.op = "INVALID"

\* (Redraw leaving the canvas as it is.)
Redraw_Never(status, fb, cv) == cv

\* match self.previous_status { FramebufferChanged => display.set_pixels(..), _ => () }
Redraw(status, fb, cv) ==
    IF status = "FramebufferChanged" THEN set_pixels(fb) ELSE cv

\* The whole call: what it leaves of the interpreter, the display and the
\* sound device, and what it gives back ("Panic" if it does not return).
execute_next_instruction(s, status, cv, is_playing, keys, random_number, checks) ==
    LET cv1 == Redraw(status, s.framebuffer, cv)
        snd == SoundStep(s.sound_timer, is_playing)
        s1 == [s EXCEPT !.delay_timer = DelayStep(s.delay_timer),
                        !.sound_timer = snd.sound_timer]
        out == [state |-> s1, previous_status |-> status, canvas |-> cv1,
                playing |-> snd.playing, result |-> "Panic", opcode |-> 0,
                instruction |-> NoInstruction]
    IN  IF ~FetchCompletes(s1) THEN out
        ELSE
          LET op == FetchOpcode(s1)
              i == decode_opcode(op)
              fetched == [out EXCEPT !.opcode = op, !.instruction = i]
          IN  IF IsInvalid(i) THEN [fetched EXCEPT !.result = "Err"]
              ELSE
                LET r == execute_instruction(s1, i, keys, random_number, checks)
                IN  IF r.panicked THEN [fetched EXCEPT !.state = r.state]
                    ELSE [fetched EXCEPT !.state = r.state,
                                         !.previous_status = r.status,
                                         !.result = r.status]

\* The instruction the next tick would fetch, NoInstruction if the fetch panics.
NextInstruction ==
    IF FetchCompletes(Machine) THEN decode_opcode(FetchOpcode(Machine))
    ELSE NoInstruction

(***************************************************************************)
(* The programs of the model: sequences of opcodes, assembled to the bytes *)
(* of a ROM file.                                                          *)
(***************************************************************************)
\* The ROM bytes of a sequence of opcodes, high byte first.
Rom(opcodes) ==
    [n \in 1..(2 * Len(opcodes)) |->
        IF n % 2 = 1 THEN opcodes[(n + 1) \div 2] \div 256
        ELSE opcodes[n \div 2] % 256]

\* The address of the k-th opcode (from 0) of a program.
At(k) == ProgramStart + 2 * k

\* A jump to itself as the k-th opcode: the program stays there.
Halt(k) == \h1000 + At(k)

(***************************************************************************)
(* The state machine: the frame loop calls Input::collect and then, once,  *)
(* execute_next_instruction.                                               *)
(***************************************************************************)
\* The interpreter Interpreter::new(rom_buffer) returns for a ROM of roms,
\* with Input::new, a paused audio device and a canvas nothing was drawn on.
InitMachine(roms) ==
    /\ \E rom_buffer \in roms :
          /\ NewCompletes(rom_buffer)
          /\ memory = NewMemory(rom_buffer)
          /\ loaded_rom = rom_buffer
    /\ stored = NoStore
    /\ calls = <<>>
    /\ framebuffer = [b \in 0..(FramebufferSize - 1) |-> 0]
    /\ registers = [r \in 0..(NumRegisters - 1) |-> 0]
    /\ stack = [e \in 0..(StackSize - 1) |-> 0]
    /\ memory_register = 0
    /\ delay_timer = 0
    /\ sound_timer = 0
    /\ program_counter = ProgramStart
    /\ stack_pointer = 0
    /\ previous_status = "Ok"
    /\ chip8_keys = [k \in 0..(NumKeys - 1) |-> KeyUp]
    /\ playing = FALSE
    /\ canvas = {}
    /\ overflow_checks \in BOOLEAN
    /\ loop_pos = "top"
    /\ result = "None"
    /\ pre_framebuffer = [b \in 0..(FramebufferSize - 1) |-> 0]

InitWith(roms) ==
    /\ InitMachine(roms)
    /\ opcode = 0
    /\ instruction = NoInstruction

\* Input::collect
Collect ==
    /\ result # "Panic"
    /\ loop_pos = "top"
    /\ \E aged \in {AgeKeys(chip8_keys)} :
          chip8_keys' \in {ApplyEvents(aged, events) : events \in EventQueues}
    /\ loop_pos' = "polled"
    /\ UNCHANGED <<framebuffer, memory, registers, stack, memory_register,
                   delay_timer, sound_timer, program_counter, stack_pointer,
                   previous_status, playing, canvas, overflow_checks, result,
                   opcode, instruction, pre_framebuffer, loaded_rom, stored, calls>>

\* Interpreter::execute_next_instruction
Tick ==
    /\ result # "Panic"
    /\ loop_pos = "polled"
    /\ \E random_number \in (IF NextInstruction.op = "RND" THEN Byte ELSE {0}) :
          \E r \in {execute_next_instruction(Machine, previous_status, canvas,
                       playing, chip8_keys, random_number, overflow_checks)} :
              /\ framebuffer' = r.state.framebuffer
              /\ memory' = r.state.memory
              /\ registers' = r.state.registers
              /\ stack' = r.state.stack
              /\ memory_register' = r.state.memory_register
              /\ delay_timer' = r.state.delay_timer
              /\ sound_timer' = r.state.sound_timer
              /\ program_counter' = r.state.program_counter
              /\ stack_pointer' = r.state.stack_pointer
              /\ previous_status' = r.previous_status
              /\ canvas' = r.canvas
              /\ playing' = r.playing
              /\ result' = r.result
              /\ opcode' = r.opcode
              /\ instruction' = r.instruction
              /\ stored' = IF r.instruction.op = "LDIR" /\ r.result = "Ok"
                           THEN [registers |-> registers,
                                 memory_register |-> memory_register,
                                 register |-> r.instruction.register]
                           ELSE stored
              /\ calls' = IF r.instruction.op = "CALL" /\ r.result = "Ok"
                          THEN <<[return_address |-> program_counter + 2,
                                  stack_pointer |-> stack_pointer]>> \o calls
                          ELSE IF r.instruction.op = "RET" /\ r.result = "Ok"
                                  /\ calls # <<>>
                          THEN Tail(calls)
                          ELSE calls
    /\ pre_framebuffer' = framebuffer
    /\ loop_pos' = "top"
    /\ UNCHANGED <<chip8_keys, overflow_checks, loaded_rom>>

Next == Collect \/ Tick

\* A step of Next that is a tick.
TickStep == loop_pos = "polled" /\ loop_pos' = "top"

(***************************************************************************)
(* Register + register add.                                                *)
(***************************************************************************)
AddRegisters == {0, 1, 15}
AddValues == {0, 1, 128, 255}

\* Load register r with v and register s with w, then add s to r.
AddRoms ==
    {Rom(<<\h6000 + r * 256 + v, \h6000 + s * 256 + w,
           \h8004 + r * 256 + s * 16, Halt(3)>>) :
        <<r, s, v, w>> \in AddRegisters \X AddRegisters \X AddValues \X AddValues}

SpecAdd == InitWith(AddRoms) /\ [][Next]_vars

\* C1: for all registers r, s (r = 0xF, s = 0xF and r = s included) the
\* register + register add 8rs4 leaves register 0xF = 1 iff the sum of the
\* values r and s held before exceeds 255 (else 0), and leaves register r
\* holding that sum modulo 256.
C1_AddFlagAndWrappedSum ==
    [][(TickStep /\ NextInstruction.op = "ADDRR" /\ result' # "Panic") =>
        LET r == NextInstruction.register0
            s == NextInstruction.register1
            sum == registers[r] + registers[s]
        IN  /\ registers'[15] = (IF sum > 255 THEN 1 ELSE 0)
            /\ registers'[r] = sum % 256]_vars

(***************************************************************************)
(* The decoder alone: every 16-bit opcode, decoded once.                   *)
(***************************************************************************)
InitDecode ==
    /\ InitMachine({Rom(<<Halt(0), Halt(1)>>)})
    /\ instruction = NoInstruction
    /\ opcode \in 0..\hFFFF

DecodeOpcode ==
    /\ instruction = NoInstruction
    /\ instruction' = decode_opcode(opcode)
    /\ UNCHANGED <<framebuffer, memory, registers, stack, memory_register,
                   delay_timer, sound_timer, program_counter, stack_pointer,
                   previous_status, chip8_keys, playing, canvas,
                   overflow_checks, loop_pos, result, opcode, pre_framebuffer,
                   loaded_rom, stored, calls>>

SpecDecode == InitDecode /\ [][DecodeOpcode]_vars

KeyRoms ==
    {Rom(<<\h6077 + x * 256, \hF00A + x * 256, Halt(2)>>) : x \in {0, 1, 15}}

SpecKey == InitWith(KeyRoms) /\ [][Next]_vars

\* C3: a tick of wait-for-key Fx0A with no key in the pressed state leaves
\* the program counter and register x as they were (a key held down does
\* not end the wait); with a key in the pressed state it sets register x
\* to the lowest pressed key and leaves the program counter 2 greater.
C3_WaitForKey ==
    [][(TickStep /\ NextInstruction.op = "LDRK") =>
        LET x == NextInstruction.register
            pressed == {k \in 0..15 : chip8_keys[k] = KeyPressed}
        IN  /\ result' = "Ok"
            /\ pressed = {} =>
                  /\ program_counter' = program_counter
                  /\ registers' = registers
            /\ pressed # {} =>
                  /\ registers'[x] \in pressed
                  /\ \A k \in pressed : registers'[x] <= k
                  /\ program_counter' = program_counter + 2]_vars

\* The wait ended with keys 0 and 1 both pressed: register 1 holds key 0.
C3_Witness ==
    /\ instruction = [op |-> "LDRK", register |-> 1]
    /\ loop_pos = "top"
    /\ chip8_keys[0] = KeyPressed /\ chip8_keys[1] = KeyPressed
    /\ registers[1] = 0
    /\ program_counter = At(2)

(***************************************************************************)
(* An opcode that does not decode.                                         *)
(***************************************************************************)
InvalidOpcodes == {\hE000, \h8008, \hF0FF}

\* Set both timers to v, optionally draw the sprite of digit 0, then reach
\* an opcode that decodes to INVALID.
InvalidRoms ==
    {Rom(<<\h6000 + v, \hF015, \hF018, bad, Halt(4)>>) :
        <<v, bad>> \in {0, 2} \X InvalidOpcodes}
    \cup {Rom(<<\h6000 + v, \hF015, \hF018, \hD005, bad>>) :
        <<v, bad>> \in {0, 2} \X InvalidOpcodes}

SpecInvalid == InitWith(InvalidRoms) /\ [][Next]_vars

\* C4: when the opcode at the program counter decodes to INVALID, the tick
\* returns the error and neither executes nor skips the instruction: the
\* program counter and the program stay, so every later tick returns the
\* error too.
C4_InvalidIsFatal ==
    [][TickStep =>
        /\ NextInstruction.op = "INVALID" =>
              /\ result' = "Err"
              /\ program_counter' = program_counter
              /\ memory' = memory
              /\ registers' = registers
              /\ previous_status' = previous_status
        /\ result = "Err" => result' = "Err"]_vars

\* The second tick in a row that returned the error: the sound timer, 2 at
\* the first INVALID fetch, is down to 0.
C4_Witness ==
    /\ result = "Err"
    /\ instruction = [op |-> "INVALID"]
    /\ registers[0] = 2
    /\ sound_timer = 0
    /\ playing

\* C5: a tick that ends with the decode failure leaves the machine (timers,
\* registers, index register, memory, stack, stack pointer, program
\* counter, framebuffer) and the collaborators (tone, displayed pixels)
\* exactly as they were before the tick.
C5_ErrorTickChangesNothing ==
    [][(TickStep /\ result' = "Err") =>
        UNCHANGED <<delay_timer, sound_timer, registers, memory_register,
                    memory, stack, stack_pointer, program_counter,
                    framebuffer, playing, canvas>>]_vars

(***************************************************************************)
(* Addresses out of memory.                                                *)
(***************************************************************************)
\* Programs that point the index register or the program counter at the
\* end of memory or past it, and then use it; the first of each pair stays
\* inside memory.
RangeRoms ==
    {Rom(<<\hA000 + i, use, Halt(2)>>) :
        <<i, use>> \in {\hFF0, \hFFD, \hFFF} \X {\hF033, \hF055, \hF165, \hD001}}
    \cup {Rom(<<\h6000 + v, \hBF00, Halt(2)>>) : v \in {\h10, \hFD, \hFF}}
    \cup {Rom(<<\h1000 + a, Halt(1)>>) : a \in {\h202, \hFFE}}
    \cup {Rom(<<\hAFFF, \h6000 + v, \hF01E, \hF033, Halt(4)>>) : v \in {0, \hFF}}

SpecRange == InitWith(RangeRoms) /\ [][Next]_vars

\* C6: a tick whose fetched instruction is not INVALID completes with Ok or
\* FramebufferChanged and never aborts, also when the opcode fetch, the
\* sprite read of draw, the BCD store or a bulk load/store addresses memory
\* out of range.
C6_TickNeverAborts ==
    [][(TickStep /\ NextInstruction.op # "INVALID") =>
        result' \in {"Ok", "FramebufferChanged"}]_vars

(***************************************************************************)
(* Calls and returns.                                                      *)
(***************************************************************************)
\* The program of n calls, each to the opcode after it.
RECURSIVE NestedCalls(_, _)
NestedCalls(n, k) ==
    IF k = n THEN <<>> ELSE <<\h2000 + At(k + 1)>> \o NestedCalls(n, k + 1)

StackRoms ==
    {Rom(<<\h00EE, Halt(1)>>),
     Rom(<<\h2204, Halt(1), \h00EE>>),
     Rom(<<\h2204, Halt(1), \h00EE, \h00EE>>),
     Rom(NestedCalls(14, 0) \o <<Halt(14)>>),
     Rom(NestedCalls(15, 0) \o <<Halt(15)>>)}

SpecStack == InitWith(StackRoms) /\ [][Next]_vars

\* C7: in every reachable state the stack pointer is a valid index of the
\* 15-entry stack, 0..14, and no CALL or RET (a RET on the empty stack and a
\* CALL on the full one included) reads or writes a slot outside it.
C7_StackPointerInBounds ==
    /\ stack_pointer \in 0..(StackSize - 1)
    /\ result # "Panic"

(***************************************************************************)
(* The timers.                                                             *)
(***************************************************************************)
\* Set both timers to v, read the delay timer into register 1, wait for a
\* key, read the delay timer again.
TimerRoms ==
    {Rom(<<\h6000 + v, \hF015, \hF018, \hF107, \hF20A, \hF107, Halt(6)>>) :
        v \in {0, 1, 3}}

SpecTimer == InitWith(TimerRoms) /\ [][Next]_vars

\* C8: every tick first steps both timers and then executes one
\* instruction: a nonzero timer goes down by exactly 1, a timer at 0 stays
\* 0, on every tick (a stalled wait-for-key included), and the instruction
\* sees the stepped values: Fx07 reads the decremented delay timer, and a
\* value Fx15 / Fx18 writes is first decremented by the next tick.
C8_TimersStepThenExecute ==
    [][TickStep =>
        LET Down(timer) == IF timer = 0 THEN 0 ELSE timer - 1
            i == NextInstruction
        IN  /\ delay_timer' =
                  IF i.op = "LDDTR" THEN registers[i.register] ELSE Down(delay_timer)
            /\ sound_timer' =
                  IF i.op = "LDSTR" THEN registers[i.register] ELSE Down(sound_timer)
            /\ delay_timer' >= 0 /\ sound_timer' >= 0
            /\ i.op = "LDRDT" => registers'[i.register] = Down(delay_timer)
            /\ i.op = "LDRK" /\ program_counter' = program_counter =>
                  sound_timer' = Down(sound_timer)]_vars

\* A stalled wait-for-key tick stepped the sound timer from 2 to 1 and the
\* delay timer from 1 to 0, after Fx07 had read the delay timer, set to 3
\* two ticks before, as 1.
C8_Witness ==
    /\ instruction = [op |-> "LDRK", register |-> 2]
    /\ program_counter = At(4)
    /\ registers[0] = 3 /\ registers[1] = 1
    /\ delay_timer = 0 /\ sound_timer = 1

\* C9 as stated: in every tick the tone is commanded on iff the sound
\* timer's value after the timer step (its post-decrement value) is
\* nonzero, and off iff that value is zero.
C9_ToneFollowsDecremented ==
    [][TickStep =>
        LET after == IF sound_timer = 0 THEN 0 ELSE sound_timer - 1
        IN  playing' <=> (after # 0)]_vars

\* C9, amended: in every tick the tone is commanded on iff the sound timer
\* is nonzero at the start of the tick (its value before the decrement),
\* and off iff that value is zero.
C9_ToneFollowsTimerAtStart ==
    [][TickStep => (playing' <=> (sound_timer # 0))]_vars

\* The tick that stepped the sound timer from 1 to 0 commanded the tone on.
C9_Witness == result = "Ok" /\ playing /\ sound_timer = 0 /\ registers[0] = 1

(***************************************************************************)
(* Drawing.                                                                *)
(***************************************************************************)
DrawXs == {0, 5, 61}
DrawYs == {0, 31, 250}
DrawHeights == {0, 5, 15}
DrawSprites == {\h000, \h200}

\* Draw the sprite of digit 2 at (0, 0), then load V0 = x, V1 = y and the
\* index register, and draw the n rows found there at (V0, V1) twice.
DrawRoms ==
    {Rom(<<\hA00A, \hD005, \h6000 + x, \h6100 + y, \hA000 + i,
           \hD010 + n, \hD010 + n, Halt(7)>>) :
        <<x, y, n, i>> \in DrawXs \X DrawYs \X DrawHeights \X DrawSprites}

SpecDraw == InitWith(DrawRoms) /\ [][Next]_vars

\* C10: drawing the same sprite twice in a row (the same Dxyn, with the
\* registers, the index register and the sprite bytes as the first draw
\* left them, and no instruction between) restores the framebuffer to its
\* content before the first draw, whatever that was, for every Vx, Vy for
\* which the draws complete and every height.
C10_DrawTwiceRestores ==
    [][(/\ TickStep
        /\ instruction.op = "DRW" /\ result = "FramebufferChanged"
        /\ NextInstruction = instruction
        /\ result' = "FramebufferChanged")
       => framebuffer' = pre_framebuffer]_vars

\* The second of two draws of 15 rows at (61, 31), where a row spans the
\* last and the first byte of the framebuffer, on a framebuffer that held
\* the digit 2: the digit is back and the rows are gone.
C10_Witness ==
    /\ instruction = [op |-> "DRW", register0 |-> 0, register1 |-> 1, nibble |-> 15]
    /\ program_counter = At(7)
    /\ registers[0] = 61 /\ registers[1] = 31
    /\ pre_framebuffer[255] # 0 /\ pre_framebuffer[0] # framebuffer[0]
    /\ framebuffer[0] = 240 /\ framebuffer[255] = 0

(***************************************************************************)
(* Drawing a sprite of zero bytes.                                         *)
(***************************************************************************)
ZeroSpriteAddress == \h300

\* Load V0 = x and V1 = y, draw the sprite of digit 2 at (V0, V1), clear the
\* screen or not (62 00 loads V2 instead), then point the index register at
\* memory the program never writes and draw n rows from there at (V0, V1).
ZeroRoms ==
    {Rom(<<\h6000 + x, \h6100 + y, \hA00A, \hD015, between,
           \hA000 + ZeroSpriteAddress, \hD010 + n, Halt(7)>>) :
        <<x, y, n, between>> \in
            {0, 5, 61, 255} \X {0, 31, 250} \X {0, 1, 15} \X {\h00E0, \h6200}}

SpecZero == InitWith(ZeroRoms) /\ [][Next]_vars

AllZero(fb) == \A b \in DOMAIN fb : fb[b] = 0

\* Whether the next tick is a draw whose rows are all zero bytes.
DrawsZeroSprite ==
    /\ NextInstruction.op = "DRW"
    /\ \A row \in 0..(NextInstruction.nibble - 1) :
          /\ memory_register + row < MemorySize
          /\ memory[memory_register + row] = 0

\* C11: a draw Dxyn whose n rows are all zero bytes leaves every byte of the
\* framebuffer as it was, at every position (Vx, Vy) and for every n in
\* 0..15; after a clear-screen such a draw leaves all 256 bytes zero.
C11_ZeroSpriteDrawsNothing ==
    [][(TickStep /\ DrawsZeroSprite) =>
        /\ framebuffer' = framebuffer
        /\ instruction.op = "CLS" => AllZero(framebuffer')]_vars

\* Fifteen zero rows were drawn at (61, 31), over the digit 2 drawn there
\* before: the digit is still in the framebuffer.
C11_Witness ==
    /\ instruction = [op |-> "DRW", register0 |-> 0, register1 |-> 1, nibble |-> 15]
    /\ memory_register = ZeroSpriteAddress
    /\ result = "FramebufferChanged"
    /\ registers[0] = 61 /\ registers[1] = 31
    /\ framebuffer[255] # 0
    /\ framebuffer = pre_framebuffer

(***************************************************************************)
(* Bulk store and bulk load.                                               *)
(***************************************************************************)
BulkCounts == {0, 7, 15}
BulkValues == {1, 250}

\* The index values of the programs for a count n: the digit sprites, free
\* memory, and the last for which I + n is inside memory.
BulkIndexes(n) == {\h000, \h300, MemorySize - 1 - n}

\* Load every register i with v + i, point the index register at index,
\* store registers 0..n (Fn55), load every register i with v + i + 100,
\* load registers 0..n back (Fn65).
BulkProgram(n, index, v) ==
    [k \in 1..36 |->
        IF k <= 16 THEN \h6000 + (k - 1) * 256 + ((v + k - 1) % 256)
        ELSE IF k = 17 THEN \hA000 + index
        ELSE IF k = 18 THEN \hF055 + n * 256
        ELSE IF k <= 34 THEN \h6000 + (k - 19) * 256 + ((v + k - 19 + 100) % 256)
        ELSE IF k = 35 THEN \hF065 + n * 256
        ELSE Halt(35)]

BulkRoms ==
    {Rom(BulkProgram(nv[1], index, nv[2])) :
        nv \in BulkCounts \X BulkValues, index \in BulkIndexes(15)}
    \cup {Rom(BulkProgram(n, MemorySize - 1 - n, 1)) : n \in BulkCounts}

SpecBulk == InitWith(BulkRoms) /\ [][Next]_vars

\* C12: a bulk load Fn65 from the index I at which the last bulk store Fn55
\* (same n, I + n inside memory) put registers 0..n, with only register
\* writes between the two, completes and gives registers 0..n the values
\* they had at the store, whatever they were overwritten with, and leaves
\* the registers above n as they were before the load.
C12_BulkRoundTrip ==
    [][(/\ TickStep
        /\ NextInstruction.op = "LDRI"
        /\ stored.register = NextInstruction.register
        /\ stored.memory_register = memory_register
        /\ memory_register + NextInstruction.register < MemorySize)
       => LET n == NextInstruction.register
          IN  /\ result' = "Ok"
              /\ \A i \in 0..n : registers'[i] = stored.registers[i]
              /\ \A i \in (n + 1)..15 : registers'[i] = registers[i]]_vars

\* Registers 0..7, stored as 1..8 at the last index for which I + 7 is
\* inside memory and then overwritten with 101..108, are back; registers 8
\* and 15 keep what they were overwritten with.
C12_Witness ==
    /\ instruction = [op |-> "LDRI", register |-> 7]
    /\ result = "Ok"
    /\ memory_register = MemorySize - 8
    /\ stored.registers[0] = 1 /\ stored.registers[8] = 9
    /\ registers[0] = 1 /\ registers[7] = 8
    /\ registers[8] = 109 /\ registers[15] = 116

(***************************************************************************)
(* Clear screen.                                                           *)
(***************************************************************************)
\* C13: a tick of clear-screen 00E0 leaves all 256 bytes of the framebuffer
\* zero whatever they held, gives Ok (not FramebufferChanged), leaves the
\* program counter 2 greater, and leaves the registers, the index register,
\* memory, the stack and the stack pointer as they were; the timers only
\* take the step every tick gives them.
C13_ClearScreen ==
    [][(TickStep /\ NextInstruction.op = "CLS") =>
        /\ AllZero(framebuffer')
        /\ result' = "Ok" /\ previous_status' = "Ok"
        /\ program_counter' = program_counter + 2
        /\ delay_timer' = (IF delay_timer = 0 THEN 0 ELSE delay_timer - 1)
        /\ sound_timer' = (IF sound_timer = 0 THEN 0 ELSE sound_timer - 1)
        /\ UNCHANGED <<registers, memory_register, memory, stack,
                       stack_pointer>>]_vars

\* The framebuffer held the digit 2 at (61, 31) and was cleared.
C13_Witness ==
    /\ instruction = [op |-> "CLS"]
    /\ result = "Ok"
    /\ program_counter = At(5)
    /\ registers[0] = 61 /\ registers[1] = 31
    /\ pre_framebuffer[255] # 0 /\ pre_framebuffer[0] # 0
    /\ AllZero(framebuffer)

(***************************************************************************)
(* Register + immediate add.                                               *)
(***************************************************************************)
AddImmRegisters == {0, 10, 14}
AddImmValues == {0, 5, 128, 255}
AddImmImmediates == {0, 1, 16, 128, 255}

\* Set the flag register to 1, load register x with v, add k to it.
AddImmRoms ==
    {Rom(<<\h6F01, \h6000 + x * 256 + v, \h7000 + x * 256 + k, Halt(3)>>) :
        <<x, v, k>> \in AddImmRegisters \X AddImmValues \X AddImmImmediates}

SpecAddImm == InitWith(AddImmRoms) /\ [][Next]_vars

\* C14: for every register x other than 0xF, every content v and every
\* immediate k, the add 7xkk leaves register x = (v + k) mod 256 and the
\* flag register 0xF = 1 iff v + k > 255, else 0 (so 6A05 then 7A10 give
\* register 0xA = 0x15 and flag register 0).
C14_AddImmediate ==
    [][(TickStep /\ NextInstruction.op = "ADDRV" /\ NextInstruction.register # 15) =>
        LET x == NextInstruction.register
            sum == registers[x] + NextInstruction.value
        IN  /\ result' = "Ok"
            /\ registers'[x] = sum % 256
            /\ registers'[15] = (IF sum > 255 THEN 1 ELSE 0)]_vars

\* 6A05 then 7A10, with the flag register 1 before: register 0xA = 0x15 and
\* the flag register is 0.
C14_Witness ==
    /\ opcode = \h7A10
    /\ instruction = [op |-> "ADDRV", register |-> 10, value |-> 16]
    /\ result = "Ok"
    /\ registers[10] = \h15
    /\ registers[15] = 0

(***************************************************************************)
(* Jump.                                                                   *)
(***************************************************************************)
\* Jump targets: the digit sprites, the program, free memory, and the last
\* addresses of memory and the one past them.
JumpTargets ==
    {\h000, \h00A, \h200, \h202, \h204, \h206, \hF55, \hEAA,
     \hFF8, \hFFD, \hFFE, \hFFF}

\* A jump to nnn as the first opcode, and as the third, reached by a jump.
JumpRoms ==
    {Rom(<<\h1000 + nnn, Halt(1), Halt(2)>>) : nnn \in JumpTargets \ {\h206}}
    \cup {Rom(<<\h1000 + At(2), Halt(1), \h1000 + nnn, Halt(3)>>) :
              nnn \in JumpTargets \ {\hF55, \hEAA}}

SpecJump == InitWith(JumpRoms) /\ [][Next]_vars

\* C15: a tick of the jump 1nnn leaves the program counter at exactly nnn,
\* for every nnn and every program counter the jump is fetched at (the 2
\* added at the start of the step does not show), gives Ok, and leaves the
\* registers, the index register, memory, the stack, the stack pointer and
\* the framebuffer as they were.
C15_JumpSetsProgramCounter ==
    [][(TickStep /\ NextInstruction.op = "JP") =>
        /\ result' = "Ok"
        /\ program_counter' = NextInstruction.address
        /\ UNCHANGED <<registers, memory_register, memory, stack,
                       stack_pointer, framebuffer>>]_vars

\* The jump 1FFF fetched at 0x204 left the program counter at 0xFFF.
C15_Witness ==
    /\ opcode = \h1FFF
    /\ instruction = [op |-> "JP", address |-> \hFFF]
    /\ Len(loaded_rom) = 8
    /\ result = "Ok"
    /\ program_counter = \hFFF

(***************************************************************************)
(* Interpreter::new as a step: from the ROM bytes read from the file to    *)
(* the interpreter the frame loop ticks, or to the panic that ends the     *)
(* process before the loop starts.                                         *)
(***************************************************************************)
\* The most bytes of program memory holds from 0x200 on.
ProgramCapacity == MemorySize - ProgramStart

\* A program of len bytes: a jump to 0x200 and bytes that differ from
\* their neighbours.
FillRom(len) ==
    [n \in 1..len |-> IF n = 1 THEN \h12 ELSE IF n = 2 THEN 0 ELSE (n * 7) % 256]

LoadRoms ==
    {FillRom(len) : len \in {0, 1, 2, 3, 4, ProgramCapacity, ProgramCapacity + 1}}
    \cup {MagicString \o FillRom(len) :
              len \in {1, 2, ProgramCapacity, ProgramCapacity + 1}}
    \cup {<<67, 56>>, <<67, 56, 81, 0, \h12, \h04>>}

\* Whether the ROM starts with the magic string.
HasMarker(rom) == Len(rom) >= 3 /\ SubSeq(rom, 1, 3) = MagicString

\* The state when new is called with a ROM of roms: memory is [0; 0xfff].
InitLoad(roms) ==
    /\ loaded_rom \in roms
    /\ memory = [a \in 0..(MemorySize - 1) |-> 0]
    /\ framebuffer = [b \in 0..(FramebufferSize - 1) |-> 0]
    /\ registers = [r \in 0..(NumRegisters - 1) |-> 0]
    /\ stack = [e \in 0..(StackSize - 1) |-> 0]
    /\ memory_register = 0
    /\ delay_timer = 0
    /\ sound_timer = 0
    /\ program_counter = 0
    /\ stack_pointer = 0
    /\ previous_status = "Ok"
    /\ chip8_keys = [k \in 0..(NumKeys - 1) |-> KeyUp]
    /\ playing = FALSE
    /\ canvas = {}
    /\ overflow_checks \in BOOLEAN
    /\ loop_pos = "new"
    /\ result = "None"
    /\ pre_framebuffer = [b \in 0..(FramebufferSize - 1) |-> 0]
    /\ stored = NoStore
    /\ calls = <<>>
    /\ opcode = 0
    /\ instruction = NoInstruction

\* Interpreter::new(loaded_rom)
New ==
    /\ loop_pos = "new"
    /\ loop_pos' = "top"
    /\ IF NewCompletes(loaded_rom)
       THEN /\ memory' = NewMemory(loaded_rom)
            /\ program_counter' = ProgramStart
            /\ result' = result
       ELSE /\ result' = "Panic"
            /\ UNCHANGED <<memory, program_counter>>
    /\ UNCHANGED <<framebuffer, registers, stack, memory_register, delay_timer,
                   sound_timer, stack_pointer, previous_status, chip8_keys,
                   playing, canvas, overflow_checks, opcode, instruction,
                   pre_framebuffer, loaded_rom, stored, calls>>

NextLoad == New \/ Collect \/ Tick

SpecLoad == InitLoad(LoadRoms) /\ [][NextLoad]_vars

\* A step of NextLoad that is the call of new.
NewStep == loop_pos = "new" /\ loop_pos' = "top"

\* C16: new, given a ROM that starts with 'C8P' and whose program fits,
\* copies the bytes after the marker to memory from 0x200 on (ROM byte
\* 3 + i at 0x200 + i), puts the marker nowhere in memory, leaves the digit
\* sprites at 0x000..0x04F and zeros everywhere else, and leaves the
\* program counter 0x200.
C16_MarkerStripped ==
    [][(NewStep /\ HasMarker(loaded_rom) /\ result' # "Panic") =>
        LET program_len == Len(loaded_rom) - 3
        IN  /\ \A a \in 0..(MemorySize - 1) :
                  memory'[a] =
                      IF a < 80 THEN DigitSprites[a + 1]
                      ELSE IF a >= \h200 /\ a < \h200 + program_len
                           THEN loaded_rom[3 + (a - \h200) + 1]
                      ELSE 0
            /\ program_counter' = \h200]_vars

\* A ROM of the marker and a program that fills memory to its last byte
\* was loaded, and no tick has run yet.
C16_Witness ==
    /\ loop_pos = "top" /\ result = "None"
    /\ Len(loaded_rom) = ProgramCapacity + 3
    /\ HasMarker(loaded_rom)
    /\ memory[\h200] = \h12 /\ memory[\h202] = 21
    /\ memory[MemorySize - 1] = loaded_rom[Len(loaded_rom)]
    /\ memory[MemorySize - 1] # 0

\* C17: new, given a ROM that does not start with 'C8P' and is 0 bytes up
\* to the capacity long (0, 1 and 2 bytes included), returns an interpreter
\* with the whole buffer at 0x200 (ROM byte i at 0x200 + i) and the program
\* counter 0x200.
C17_PlainRomLoadsVerbatim ==
    [][(NewStep /\ ~HasMarker(loaded_rom) /\ Len(loaded_rom) <= ProgramCapacity) =>
        /\ result' # "Panic"
        /\ \A i \in 0..(Len(loaded_rom) - 1) :
              memory'[\h200 + i] = loaded_rom[i + 1]
        /\ program_counter' = \h200]_vars

\* C18: new rejects a program longer than the capacity (3583 bytes, counted
\* after the marker) with an error, and no instruction is ever fetched; a
\* program of exactly the capacity is loaded, with or without the marker.
C18_OversizedProgramRejected ==
    [][/\ NewStep =>
          LET program_len == Len(loaded_rom) - (IF HasMarker(loaded_rom) THEN 3 ELSE 0)
          IN  /\ program_len > 3583 => result' = "Panic"
              /\ program_len = 3583 =>
                    /\ result' # "Panic"
                    /\ memory'[\h200] = \h12
                    /\ memory'[MemorySize - 1] = loaded_rom[Len(loaded_rom)]
       /\ (result = "Panic" /\ instruction = NoInstruction) =>
             instruction' = NoInstruction]_vars

\* A ROM of the marker and a program one byte longer than the capacity was
\* rejected.
C18_Witness ==
    /\ loop_pos = "top" /\ result = "Panic"
    /\ Len(loaded_rom) = 3587
    /\ HasMarker(loaded_rom)
    /\ instruction = NoInstruction

(***************************************************************************)
(* The framebuffer on the display.                                         *)
(***************************************************************************)
\* C19: the tick after a tick that gave FramebufferChanged hands the
\* framebuffer to the display before it fetches its instruction, and the
\* pixels the display then shows are those of the framebuffer the earlier
\* tick left: pixel (x, y) is lit iff bit 7 - x mod 8 of byte
\* x div 8 + 8 * y is set.
C19_ChangedFramebufferShown ==
    [][(TickStep /\ result = "FramebufferChanged") =>
        canvas' = {p \in (0..63) \X (0..31) :
                      (framebuffer[p[1] \div 8 + p[2] * 8]
                          \div Pow2(7 - (p[1] % 8))) % 2 = 1}]_vars

\* The clear-screen tick after the draw of the digit 2 at (61, 31) showed
\* the digit, whose first row runs from the last byte of the framebuffer
\* into the first.
C19_Witness ==
    /\ instruction = [op |-> "CLS"]
    /\ registers[0] = 61 /\ registers[1] = 31
    /\ {<<61, 31>>, <<62, 31>>, <<63, 31>>, <<0, 0>>} \subseteq canvas
    /\ <<1, 0>> \notin canvas

\* C20: the tick after a clear-screen tick (which gave Ok) shows the
\* cleared framebuffer: the display is redrawn from the framebuffer before
\* or at that tick, so no pixel stays lit on the display once the
\* framebuffer is all zero.
C20_ClearIsShown ==
    [][(TickStep /\ instruction.op = "CLS" /\ result = "Ok") =>
        canvas' = {}]_vars

CallProgram(n) ==
    [k \in 1..(2 * n + 1) |->
        IF k = 2 THEN Halt(1)
        ELSE IF k % 2 = 1 /\ k < 2 * n + 1 THEN \h2000 + At(k + 1)
        ELSE \h00EE]

CallDepths == {1, 2, 3, 14, 15}

\* The nested programs, and one that calls the same subroutine twice.
CallRoms ==
    {Rom(CallProgram(n)) : n \in CallDepths}
    \cup {Rom(<<\h2000 + At(3), \h2000 + At(3), Halt(2), \h00EE>>)}

SpecCall == InitWith(CallRoms) /\ [][Next]_vars

\* C22: a CALL 2nnn fetched at P that completes leaves the program counter
\* at nnn and P + 2 recorded on the stack; the RET that matches it (the
\* calls and returns in between balanced) leaves the program counter at
\* P + 2 and the stack pointer at its value before the CALL, so nested
\* calls return last in, first out.
C22_CallReturnPairing ==
    [][TickStep =>
        /\ (NextInstruction.op = "CALL" /\ result' # "Panic") =>
              /\ result' = "Ok"
              /\ program_counter' = NextInstruction.address
              /\ stack'[stack_pointer'] = program_counter + 2
        /\ (NextInstruction.op = "RET" /\ calls # <<>>) =>
              /\ result' = "Ok"
              /\ program_counter' = Head(calls).return_address
              /\ stack_pointer' = Head(calls).stack_pointer]_vars

\* In the program of 3 nested calls the second return came back to the
\* first subroutine, one call still open.
C22_Witness ==
    /\ Len(loaded_rom) = 14
    /\ instruction = [op |-> "RET"]
    /\ result = "Ok"
    /\ program_counter = At(3)
    /\ stack_pointer = 1
    /\ Len(calls) = 1 /\ calls[1].return_address = At(1)

\* C23: the stack holds 15 return addresses: from the new interpreter 15
\* nested CALLs with no RET between all complete, and the 15 RETs that
\* follow return to the 15 recorded addresses, the last recorded first.
C23_FifteenNestedCalls ==
    [][TickStep =>
        /\ (NextInstruction.op = "CALL" /\ Len(calls) < 15) =>
              /\ result' = "Ok"
              /\ program_counter' = NextInstruction.address
        /\ (NextInstruction.op = "RET" /\ calls # <<>>) =>
              /\ result' = "Ok"
              /\ program_counter' = Head(calls).return_address]_vars

(***************************************************************************)
(* Subtract, both directions.                                              *)
(***************************************************************************)
SubRegisters == {0, 14}
SubValues == {0, 1, 128, 255}
SubOpcodes == {\h8005, \h8007}

\* Set the flag register to 1, load register x with v and register y with
\* w, then subtract (8xy5 or 8xy7).
SubRoms ==
    {Rom(<<\h6F01, \h6000 + xy[1] * 256 + vw[1], \h6000 + xy[2] * 256 + vw[2],
           sub + xy[1] * 256 + xy[2] * 16, Halt(4)>>) :
        xy \in SubRegisters \X SubRegisters, vw \in SubValues \X SubValues,
        sub \in SubOpcodes}

SpecSub == InitWith(SubRoms) /\ [][Next]_vars

\* C24: for registers x, y other than 0xF, 8xy5 leaves register x =
\* (Vx - Vy) mod 256 and the flag register 1 iff Vx > Vy (0 when Vx = Vy or
\* Vx < Vy); 8xy7 leaves register x = (Vy - Vx) mod 256 and the flag
\* register 1 iff Vy > Vx; register y, if it is not x, is unchanged.
C24_SubtractBothWays ==
    [][(/\ TickStep
        /\ NextInstruction.op \in {"SUBRR", "SUBN"}
        /\ NextInstruction.register0 # 15 /\ NextInstruction.register1 # 15)
       => LET x == NextInstruction.register0
              y == NextInstruction.register1
              minuend == IF NextInstruction.op = "SUBRR"
                         THEN registers[x] ELSE registers[y]
              subtrahend == IF NextInstruction.op = "SUBRR"
                            THEN registers[y] ELSE registers[x]
          IN  /\ result' = "Ok"
              /\ registers'[x] = (minuend - subtrahend + 256) % 256
              /\ registers'[15] = (IF minuend > subtrahend THEN 1 ELSE 0)
              /\ y # x => registers'[y] = registers[y]]_vars

\* 8E07 with V0 = 255 and V14 = 255 after the flag register was 1:
\* V14 = 0 and the flag register is 0, V0 is still 255.
C24_Witness ==
    /\ opcode = \h8E07
    /\ instruction = [op |-> "SUBN", register0 |-> 14, register1 |-> 0]
    /\ result = "Ok"
    /\ registers[0] = 255 /\ registers[14] = 0 /\ registers[15] = 0

(***************************************************************************)
(* Shifts.                                                                 *)
(***************************************************************************)
ShiftRegisters == {0, 15}
ShiftValues == {0, 1, 2, 3, 128, 129, 255}
ShiftOpcodes == {\h8006, \h800E}

\* Load register 1 with 0x33 and register x with v, then shift register x
\* (8x16 or 8x1E).
ShiftRoms ==
    {Rom(<<\h6133, \h6000 + x * 256 + v, shift + x * 256 + 16, Halt(3)>>) :
        <<x, v, shift>> \in ShiftRegisters \X ShiftValues \X ShiftOpcodes}

SpecShift == InitWith(ShiftRoms) /\ [][Next]_vars

\* C25: for every register x in 0..15, 8xy6 leaves the flag register = bit
\* 0 of the Vx before and register x = that Vx >> 1; 8xyE leaves the flag
\* register = bit 7 of the Vx before and register x = (that Vx << 1) mod
\* 256; register y is not read and not changed.
C25_Shifts ==
    [][(TickStep /\ NextInstruction.op \in {"SHR", "SHL"}) =>
        LET x == NextInstruction.register0
            y == NextInstruction.register1
            pre == registers[x]
            right == NextInstruction.op = "SHR"
        IN  /\ result' = "Ok"
            /\ registers'[15] = (IF right THEN pre % 2 ELSE pre \div 128)
            /\ registers'[x] = (IF right THEN pre \div 2 ELSE (pre * 2) % 256)
            /\ (y # x /\ y # 15) => registers'[y] = registers[y]]_vars

(***************************************************************************)
(* Random.                                                                 *)
(***************************************************************************)
RandomRegisters == {0, 15}
RandomMasks == {\h00, \h0F, \hA5, \hFF}

\* Load register 1 with 0xAA and register x with 0xFF, then Cxkk.
RandomRoms ==
    {Rom(<<\h61AA, \h60FF + x * 256, \hC000 + x * 256 + kk, Halt(3)>>) :
        <<x, kk>> \in RandomRegisters \X RandomMasks}

SpecRandom == InitWith(RandomRoms) /\ [][Next]_vars

\* C26: whatever byte the random source gives, Cxkk leaves register x with
\* no bit set outside the mask kk (it is that byte AND kk), and changes no
\* other register (the flag register included when x is not 0xF), no
\* memory byte and no framebuffer byte; the timers only take the step of
\* the tick.
C26_RandomIsMasked ==
    [][(TickStep /\ NextInstruction.op = "RND") =>
        LET x == NextInstruction.register
            kk == NextInstruction.value
        IN  /\ result' = "Ok"
            /\ registers'[x] \in 0..255
            /\ \A bit \in 0..7 :
                  (registers'[x] \div Pow2(bit)) % 2 = 1 => (kk \div Pow2(bit)) % 2 = 1
            /\ \A j \in 0..15 : j # x => registers'[j] = registers[j]
            /\ delay_timer' = (IF delay_timer = 0 THEN 0 ELSE delay_timer - 1)
            /\ sound_timer' = (IF sound_timer = 0 THEN 0 ELSE sound_timer - 1)
            /\ UNCHANGED <<memory, framebuffer, memory_register, stack,
                           stack_pointer>>]_vars

\* C0A5 left register 0, 0xFF before, as 0xA1: the random byte had bit 2
\* of the mask clear.
C26_Witness ==
    /\ instruction = [op |-> "RND", register |-> 0, value |-> \hA5]
    /\ result = "Ok"
    /\ registers[0] = \hA1 /\ registers[1] = \hAA /\ registers[15] = 0

(***************************************************************************)
(* Draw: the bytes a row goes to.                                          *)
(***************************************************************************)
\* C27: a draw Dxyn that completes XORs, for each row r in 0..n-1, the
\* high part of memory[I + r] shifted by Vx mod 8 into framebuffer byte
\* (Vx div 8 + 8 * (Vy + r)) mod 256 and the low part into the byte after
\* it, byte 0 after byte 255; every other framebuffer byte is unchanged, and
\* the step returns FramebufferChanged for every n, 0 included.
C27_DrawByteAddressing ==
    [][(TickStep /\ NextInstruction.op = "DRW" /\ result' # "Panic") =>
        LET Vx == registers[NextInstruction.register0]
            Vy == registers[NextInstruction.register1]
            n == NextInstruction.nibble
            bits(r) == memory[memory_register + r] * Pow2(8 - (Vx % 8))
            high(r) == (Vx \div 8 + 8 * (Vy + r)) % 256
            low(r) == (high(r) + 1) % 256
        IN  /\ result' = "FramebufferChanged"
            /\ \A b \in 0..255 :
                  IF \E r \in 0..(n - 1) : high(r) = b
                  THEN \E r \in 0..(n - 1) :
                          /\ high(r) = b
                          /\ framebuffer'[b] =
                                BitXor(framebuffer[b], (bits(r) \div 256) % 256)
                  ELSE IF \E r \in 0..(n - 1) : low(r) = b
                  THEN \E r \in 0..(n - 1) :
                          /\ low(r) = b
                          /\ framebuffer'[b] = BitXor(framebuffer[b], bits(r) % 256)
                  ELSE framebuffer'[b] = framebuffer[b]]_vars

\* The first draw of 15 rows from address 0 at (61, 31), over the digit 2
\* at (0, 0): row 0 (0xF0, shifted by 5) put 0x07 in byte 255 and XORed
\* 0x80 into byte 0, which held 0xF0.
C27_Witness ==
    /\ instruction = [op |-> "DRW", register0 |-> 0, register1 |-> 1, nibble |-> 15]
    /\ result = "FramebufferChanged"
    /\ program_counter = At(6)
    /\ registers[0] = 61 /\ registers[1] = 31 /\ memory_register = 0
    /\ framebuffer[255] = \h07 /\ framebuffer[0] = \h70

\* C28: after a draw Dxyn that completes, register 0xF is 1 if the draw
\* turned off at least one pixel that was lit before it, and 0 otherwise.
C28_DrawCollisionFlag ==
    [][(TickStep /\ NextInstruction.op = "DRW" /\ result' # "Panic") =>
        registers'[15] =
            (IF \E b \in 0..255 : \E bit \in 0..7 :
                   /\ (framebuffer[b] \div Pow2(bit)) % 2 = 1
                   /\ (framebuffer'[b] \div Pow2(bit)) % 2 = 0
             THEN 1 ELSE 0)]_vars

(***************************************************************************)
(* Skip if a key is, or is not, down.                                      *)
(***************************************************************************)
SkipRegisters == {0, 15}
SkipValues == {0, 1, 15, 16, 255}
SkipOpcodes == {\hE09E, \hE0A1}

\* Load register x with a key number, then Ex9E or ExA1.
SkipRoms ==
    {Rom(<<\h6000 + x * 256 + k, skip + x * 256, Halt(2), Halt(3)>>) :
        <<x, k, skip>> \in SkipRegisters \X SkipValues \X SkipOpcodes}

SpecSkip == InitWith(SkipRoms) /\ [][Next]_vars

C30_SkipNeverAborts ==
    [][(TickStep /\ NextInstruction.op \in {"SKP", "SKNP"}) =>
        result' # "Panic"]_vars

(***************************************************************************)
(* Conditional skips.                                                      *)
(***************************************************************************)
CondRegisters == {0, 15}
CondOthers == {1, 15}
CondValues == {0, 7, 255}

\* 3xkk, 4xkk, 5xy0 and 9xy0 on registers x and y.
CondOpcodes(x, y) ==
    {\h3000 + x * 256 + kk : kk \in CondValues}
    \cup {\h4000 + x * 256 + kk : kk \in CondValues}
    \cup {\h5000 + x * 256 + y * 16, \h9000 + x * 256 + y * 16}

\* Load register y with w and register x with v, then one conditional skip.
CondRoms ==
    UNION {{Rom(<<\h6000 + y * 256 + w, \h6000 + x * 256 + v, cond,
                  Halt(3), Halt(4)>>) : cond \in CondOpcodes(x, y)} :
              <<x, y, v, w>> \in CondRegisters \X CondOthers \X CondValues \X CondValues}

SpecCond == InitWith(CondRoms) /\ [][Next]_vars

\* C31: each of 3xkk (Vx = kk), 4xkk (Vx # kk), 5xy0 (Vx = Vy) and 9xy0
\* (Vx # Vy) leaves the program counter exactly 4 greater than before the
\* tick when its condition holds and exactly 2 greater when it does not,
\* gives Ok, and changes no register, no memory byte, no framebuffer byte,
\* not the index register, the stack or the stack pointer; the timers only
\* take the step of the tick.
C31_ConditionalSkips ==
    [][(TickStep /\ NextInstruction.op \in {"SERV", "SNERV", "SERR", "SNERR"}) =>
        LET i == NextInstruction
            holds ==
                CASE i.op = "SERV" -> registers[i.register] = i.value
                  [] i.op = "SNERV" -> registers[i.register] # i.value
                  [] i.op = "SERR" -> registers[i.register0] = registers[i.register1]
                  [] i.op = "SNERR" -> registers[i.register0] # registers[i.register1]
        IN  /\ result' = "Ok"
            /\ program_counter' = program_counter + (IF holds THEN 4 ELSE 2)
            /\ delay_timer' = (IF delay_timer = 0 THEN 0 ELSE delay_timer - 1)
            /\ sound_timer' = (IF sound_timer = 0 THEN 0 ELSE sound_timer - 1)
            /\ UNCHANGED <<registers, memory, framebuffer, memory_register,
                           stack, stack_pointer>>]_vars

\* 9F10 skipped with register 0xF = 255 and register 1 = 7.
C31_Witness ==
    /\ opcode = \h9F10
    /\ instruction = [op |-> "SNERR", register0 |-> 15, register1 |-> 1]
    /\ result = "Ok"
    /\ registers[15] = 255 /\ registers[1] = 7
    /\ program_counter = At(4)

(***************************************************************************)
(* Binary-coded decimal.                                                   *)
(***************************************************************************)
\* Free memory, and the last address three bytes fit at.
BcdAddresses == {\h300, MemorySize - 3}

\* Load register x with v, point the index register at a, then Fx33.
BcdRoms ==
    {Rom(<<\h6000 + x * 256 + v, \hA000 + a, \hF033 + x * 256, Halt(3)>>) :
        <<x, v, a>> \in ({0} \X Byte \X {\h300})
                         \cup ({0, 15} \X {0, 9, 10, 209, 255} \X BcdAddresses)}

SpecBcd == InitWith(BcdRoms) /\ [][Next]_vars

\* C32: for every register value v in 0..255, Fx33 with the index register
\* I pointing at three bytes of memory leaves in memory[I], memory[I + 1],
\* memory[I + 2] the digits h = v div 100, t = (v div 10) mod 10 and
\* o = v mod 10, each in 0..9 and with 100 * h + 10 * t + o = v; no other
\* memory byte, no register and not the index register change.
C32_BcdStore ==
    [][(TickStep /\ NextInstruction.op = "LDB" /\ memory_register + 2 < MemorySize) =>
        LET v == registers[NextInstruction.register]
            I == memory_register
            h == memory'[I]
            t == memory'[I + 1]
            o == memory'[I + 2]
        IN  /\ result' = "Ok"
            /\ h = v \div 100 /\ t = (v \div 10) % 10 /\ o = v % 10
            /\ {h, t, o} \subseteq 0..9
            /\ 100 * h + 10 * t + o = v
            /\ memory' = [memory EXCEPT ![I] = h, ![I + 1] = t, ![I + 2] = o]
            /\ UNCHANGED <<registers, memory_register>>]_vars

\* FF33 with register 0xF = 209 wrote 2, 0, 9 at 0x300.
C32_Witness ==
    /\ instruction = [op |-> "LDB", register |-> 15]
    /\ result = "Ok"
    /\ registers[15] = 209 /\ memory_register = \h300
    /\ memory[\h300] = 2 /\ memory[\h301] = 0 /\ memory[\h302] = 9

(***************************************************************************)
(* What bulk store and bulk load write.                                    *)
(***************************************************************************)
\* C33: a bulk store Fx55 with I + x inside memory writes exactly the
\* x + 1 memory bytes I..I+x (memory[I + i] = register i for i in 0..x,
\* every other byte as before) and no register; a bulk load Fx65 writes
\* exactly registers 0..x (register i = memory[I + i]) and no memory byte;
\* both leave the index register unchanged.
C33_BulkFrame ==
    [][(/\ TickStep
        /\ NextInstruction.op \in {"LDIR", "LDRI"}
        /\ memory_register + NextInstruction.register < MemorySize) =>
        LET x == NextInstruction.register
            I == memory_register
        IN  /\ result' = "Ok"
            /\ memory_register' = I
            /\ NextInstruction.op = "LDIR" =>
                  /\ \A i \in 0..x : memory'[I + i] = registers[i]
                  /\ \A a \in (0..(I - 1)) \cup ((I + x + 1)..(MemorySize - 1)) :
                        memory'[a] = memory[a]
                  /\ registers' = registers
            /\ NextInstruction.op = "LDRI" =>
                  /\ \A i \in 0..x : registers'[i] = memory[I + i]
                  /\ \A i \in (x + 1)..15 : registers'[i] = registers[i]
                  /\ memory' = memory]_vars

\* F755 at 0x300 with registers 1..16: bytes 0x300..0x307 hold 1..8, the
\* byte after them is as it was, and the index register is still 0x300.
C33_Witness ==
    /\ instruction = [op |-> "LDIR", register |-> 7]
    /\ result = "Ok"
    /\ memory_register = \h300
    /\ \A i \in 0..15 : registers[i] = i + 1
    /\ \A i \in 0..7 : memory[\h300 + i] = i + 1
    /\ memory[\h308] = 0 /\ memory[\h2FF] = 0

(***************************************************************************)
(* The address of a digit sprite.                                          *)
(***************************************************************************)
FontRegisters == {0, 15}
FontDigits == 0..15

\* Load register x with d, then Fx29.
FontRoms ==
    {Rom(<<\h6000 + x * 256 + d, \hF029 + x * 256, Halt(2)>>) :
        <<x, d>> \in FontRegisters \X FontDigits}

SpecFont == InitWith(FontRoms) /\ [][Next]_vars

\* C34: for every register value d in 0..15, Fx29 leaves the index
\* register at 5 * d, and if the bytes 0x000-0x04F are as they were
\* preloaded, the five bytes at that address are the sprite of the
\* hexadecimal digit d.
C34_IndexFromFont ==
    [][(/\ TickStep
        /\ NextInstruction.op = "LDF"
        /\ registers[NextInstruction.register] \in 0..15) =>
        LET d == registers[NextInstruction.register]
        IN  /\ result' = "Ok"
            /\ memory_register' = 5 * d
            /\ (\A a \in 0..79 : memory[a] = DigitSprites[a + 1]) =>
                  \A k \in 0..4 :
                      memory'[memory_register' + k] = DigitSprites[5 * d + k + 1]]_vars

\* FF29 with register 0xF = 0xF: the index register is 75, where the
\* sprite of F (F0 80 F0 80 80) is.
C34_Witness ==
    /\ instruction = [op |-> "LDF", register |-> 15]
    /\ result = "Ok"
    /\ registers[15] = 15 /\ memory_register = 75
    /\ <<memory[75], memory[76], memory[77], memory[78], memory[79]>>
          = <<\hF0, \h80, \hF0, \h80, \h80>>

(***************************************************************************)
(* Alignment of the program counter.                                       *)
(***************************************************************************)
\* C35: the program counter is even in every reachable state: it starts
\* at 0x200 and no jump, call, jump plus V0, return, skip or wait-for-key
\* stall leaves it at an odd address.
C35_ProgramCounterEven == program_counter % 2 = 0

(***************************************************************************)
(* What changes the framebuffer.                                           *)
(***************************************************************************)
\* One opcode of every instruction but clear-screen and draw, and two that
\* do not decode.
FrameOpcodes ==
    {\h00EE, \h0123, \h1208, \h2208, \h317B, \h4100, \h5010, \h6012,
     \h71FF, \h8010, \h8011, \h8012, \h8013, \h8014, \h8015, \h8016,
     \h8017, \h801E, \h9010, \hA123, \hB208, \hC10F, \hE09E, \hE0A1,
     \hF107, \hF10A, \hF115, \hF118, \hF11E, \hF129, \hF133, \hF155,
     \hF165, \h5011, \hF1FF}

\* Load register 1 with 123, draw the sprite of digit 2 at (0, 0), then
\* one other instruction.
FrameRoms ==
    {Rom(<<\h617B, \hA00A, \hD005, other, Halt(4), Halt(5)>>) :
        other \in FrameOpcodes}

SpecFrame == InitWith(FrameRoms) /\ [][Next]_vars

\* C36: the framebuffer is changed only by clear-screen and draw: a tick
\* that executes any other instruction, a stalled wait-for-key and an
\* opcode that does not decode included, leaves all 256 framebuffer bytes
\* as they were.
C36_OnlyClearAndDrawChangeFramebuffer ==
    [][(TickStep /\ NextInstruction.op \notin {"CLS", "DRW"}) =>
        \A b \in 0..(FramebufferSize - 1) : framebuffer'[b] = framebuffer[b]]_vars

\* F133 ran over the drawn digit 2 and wrote 1, 2, 3 to memory: the digit
\* is still in the framebuffer.
C36_Witness ==
    /\ instruction = [op |-> "LDB", register |-> 1]
    /\ result = "Ok"
    /\ memory[\h00A] = 1 /\ memory[\h00B] = 2 /\ memory[\h00C] = 3
    /\ framebuffer[0] = \hF0 /\ framebuffer[8] = \h10 /\ framebuffer[32] = \hF0
    /\ framebuffer[10] = 0

(***************************************************************************)
(* The progression of the key states.                                      *)
(***************************************************************************)
\* C37: at each collection, whatever events it finds, a key in the pressed
\* state with no new event becomes down, a key in the up state with no new
\* event stays up, and a key in the down state stays down until its
\* release event, after which it is up; so a press is seen as pressed by
\* one tick only.
C37_KeyProgression ==
    \A events \in EventQueues : \A k \in 0..(NumKeys - 1) :
        LET after == ApplyEvents(AgeKeys(chip8_keys), events)
            mine == {n \in 1..Len(events) : KeycodeKey[events[n].keycode] = k}
            released == \E n \in mine : events[n].kind = "KeyUp"
            last == CHOOSE n \in mine : \A m \in mine : m <= n
        IN  /\ (chip8_keys[k] = KeyPressed /\ mine = {}) => after[k] = KeyDown
            /\ (chip8_keys[k] = KeyUp /\ mine = {}) => after[k] = KeyUp
            /\ (chip8_keys[k] = KeyDown /\ ~released) => after[k] = KeyDown
            /\ (chip8_keys[k] = KeyDown /\ mine # {} /\ events[last].kind = "KeyUp")
                  => after[k] = KeyUp

(***************************************************************************)
(* The stall of wait-for-key.                                              *)
(***************************************************************************)
\* C38: a tick of wait-for-key with no key in the pressed state gives Ok
\* and changes nothing but the timers: the program counter, the registers,
\* the index register, memory, the stack, the stack pointer and the
\* framebuffer are as before, so the next tick executes the same
\* instruction; the first tick with some key in the pressed state ends the
\* stall.
C38_StallChangesOnlyTimers ==
    [][(TickStep /\ NextInstruction.op = "LDRK") =>
        /\ result' = "Ok"
        /\ IF \A k \in 0..(NumKeys - 1) : chip8_keys[k] # KeyPressed
           THEN /\ UNCHANGED <<program_counter, registers, memory_register,
                               memory, stack, stack_pointer, framebuffer>>
                /\ delay_timer' = (IF delay_timer = 0 THEN 0 ELSE delay_timer - 1)
                /\ sound_timer' = (IF sound_timer = 0 THEN 0 ELSE sound_timer - 1)
           ELSE program_counter' = program_counter + 2]_vars

\* The second stalled tick in a row, with key 0 held down but not pressed:
\* both timers, set to 3 four ticks before, have reached 0, and the
\* program is still at the wait.
C38_Witness ==
    /\ instruction = [op |-> "LDRK", register |-> 2]
    /\ result = "Ok" /\ loop_pos = "top"
    /\ program_counter = At(4)
    /\ registers[0] = 3 /\ registers[2] = 0
    /\ chip8_keys[0] = KeyDown /\ chip8_keys[1] = KeyUp
    /\ delay_timer = 0 /\ sound_timer = 0

=============================================================================
